---- MODULE Spec2Model ----
(***************************************************************************)
(* A model of the palette store of palette-rs (src/palette/data.rs):       *)
(* the slot map, the group metadata, the address cursor, the three bounds  *)
(* and the allocation / mutation operations of PaletteData.                *)
(*                                                                         *)
(* Option<T> values are modelled as sequences of length at most one:       *)
(* <<>> is None and <<x>> is Some(x).                                      *)
(***************************************************************************)
EXTENDS Integers, Sequences, FiniteSets, TLC

\* Largest page_count / line_count / column_count a modelled store is given.
MaxPage == 2
MaxLine == 2
MaxColumn == 3
\* Largest capacity (page_count * line_count * column_count) of a modelled store.
MaxCells == 4
\* Number of logged add_color calls made beyond the capacity of the store.
ExtraCalls == 2

VARIABLES
    slotmap,               \* PaletteData::slotmap: Address -> element (partial)
    metadata,              \* PaletteData::metadata: Group -> Metadata (partial)
    address_cursor,        \* PaletteData::address_cursor
    page_count,            \* PaletteData::page_count
    default_line_count,    \* PaletteData::default_line_count
    default_column_count,  \* PaletteData::default_column_count
    hook_calls,            \* observation: calls of prepare_new_page/_line per group
    log,                   \* observation: the results of the logged add_color calls
    walk,                  \* the addresses visited by repeated wrapped_next
    out_buf,               \* the bytes write_palette has written
    zpl_pc,                \* the position of write_palette
    zpl_i,                 \* the loop variable of write_palette
    last_set               \* observation: the label and name last set per group

vars == <<slotmap, metadata, address_cursor, page_count, default_line_count,
          default_column_count, hook_calls, log, walk, out_buf, zpl_pc, zpl_i,
          last_set>>

\* The variables the store operations leave alone.
aux == <<walk, out_buf, zpl_pc, zpl_i, last_set>>

store == <<slotmap, metadata, address_cursor, page_count, default_line_count,
           default_column_count>>

----------------------------------------------------------------------------
\* Values

None == <<>>
Some(x) == <<x>>

Colors == {"red", "green"}

\* Addresses callers may name: one step past the largest bound in each component.
Address == [page : 0..MaxPage, line : 0..MaxLine, column : 0..MaxColumn]

Address_new(p, l, c) == [page |-> p, line |-> l, column |-> c]

\* Group projections of an address (metadata keys).
GroupAll == [kind |-> "all", page |-> 0, line |-> 0]
page_group(a) == [kind |-> "page", page |-> a.page, line |-> 0]
line_group(a) == [kind |-> "line", page |-> a.page, line |-> a.line]

Group == {GroupAll} \cup {page_group(a) : a \in Address}
                    \cup {line_group(a) : a \in Address}

\* ColorElement: a direct colour (order 0) or a derived element (order > 0)
\* whose colour may or may not resolve.
ZerothOrder(c) == [order |-> 0, color |-> Some(c)]
Derived(o, oc) == [order |-> o, color |-> oc]

ColorElement == {ZerothOrder(c) : c \in Colors}
                  \cup {Derived(1, None), Derived(1, Some("red"))}

\* Slot::new, Slot::get_color, Slot::get_order: a slot wraps one element.
Slot_new(e) == e
Slot_get_color(s) == s.color
Slot_get_order(s) == s.order

\* The capacity error. next_free_address returns it as MaxSlotLimitExceeded;
\* the Error enum of result.rs declares it as MaxCellLimitExceeded.
MaxSlotLimitExceeded == "MaxSlotLimitExceeded"
MaxCellLimitExceeded == MaxSlotLimitExceeded

\* Metadata::default
Metadata_default == [format_label |-> None, name |-> None, initialized |-> FALSE]

\* The successor of an address in the ring of the given bounds.
wrapped_next(a, pages, lines, columns) ==
    LET c == (a.column + 1) % columns
        l == IF c = 0 THEN (a.line + 1) % lines ELSE a.line
        p == IF c = 0 /\ l = 0 THEN (a.page + 1) % pages ELSE a.page
    IN  Address_new(p, l, c)

----------------------------------------------------------------------------
\* Map helpers (BTreeMap::insert, Entry::or_insert)

Insert(m, k, v) == [x \in (DOMAIN m) \cup {k} |-> IF x = k THEN v ELSE m[x]]

EmptyMap == [x \in {} |-> x]

----------------------------------------------------------------------------
\* PaletteData as a value: the methods below take `self` and return the
\* store they leave behind together with what they return.

PaletteData(sm, md, cur, pc, lc, cc) ==
    [slotmap |-> sm, metadata |-> md, address_cursor |-> cur,
     page_count |-> pc, default_line_count |-> lc, default_column_count |-> cc]

\* Default::default with the bounds the caller assigns right after it.
PaletteData_default(pc, lc, cc) ==
    PaletteData(EmptyMap, EmptyMap, Address_new(0, 0, 0), pc, lc, cc)

len(self) == Cardinality(DOMAIN self.slotmap)

capacity(self) ==
    self.page_count * self.default_line_count * self.default_column_count

get_color(self, address) ==
    IF address \in DOMAIN self.slotmap
    THEN Slot_get_color(self.slotmap[address])
    ELSE None

\* Variant of check_address: the column test admits the bound itself.
check_address_le(self, address) ==
    /\ address.page < self.page_count
    /\ address.line < self.default_line_count
    /\ address.column <= self.default_column_count

check_address(self, address) ==
    /\ address.page < self.page_count
    /\ address.line < self.default_line_count
    /\ address.column < self.default_column_count

is_initialized(self, group) ==
    IF group \in DOMAIN self.metadata
    THEN self.metadata[group].initialized
    ELSE FALSE

set_initialized(self, group, value) ==
    LET cur == IF group \in DOMAIN self.metadata
               THEN self.metadata[group] ELSE Metadata_default
    IN  [self EXCEPT !.metadata =
            Insert(self.metadata, group, [cur EXCEPT !.initialized = value])]

get_label(self, group) ==
    IF group \in DOMAIN self.metadata
    THEN self.metadata[group].format_label
    ELSE None

set_label(self, group, format_label) ==
    LET cur == IF group \in DOMAIN self.metadata
               THEN self.metadata[group] ELSE Metadata_default
    IN  [self EXCEPT !.metadata =
            Insert(self.metadata, group,
                   [cur EXCEPT !.format_label = Some(format_label)])]

get_name(self, group) ==
    IF group \in DOMAIN self.metadata
    THEN self.metadata[group].name
    ELSE None

\* Variant of set_name: the entry is inserted afresh instead of updated.
set_name_fresh_entry(self, group, name) ==
    [self EXCEPT !.metadata =
        Insert(self.metadata, group,
               [Metadata_default EXCEPT !.name = Some(name)])]

set_name(self, group, name) ==
    LET cur == IF group \in DOMAIN self.metadata
               THEN self.metadata[group] ELSE Metadata_default
    IN  [self EXCEPT !.metadata =
            Insert(self.metadata, group, [cur EXCEPT !.name = Some(name)])]

\* What a hook can observe when it is invoked for `address`.
HookCall(kind, group, self, address) ==
    [hook |-> kind, group |-> group,
     slot_present |-> address \in DOMAIN self.slotmap,
     page_initialized |-> is_initialized(self, page_group(address))]

\* prepare_new_page / prepare_new_line default to no_op: the store is unchanged.
no_op(self) == self

\* Variant of prepare_address: the line group is prepared before the page group.
prepare_address_line_first(self, address) ==
    LET pg == page_group(address)
        lg == line_group(address)
        newLine == ~is_initialized(self, lg)
        s1 == IF newLine THEN set_initialized(no_op(self), lg, TRUE) ELSE self
        h1 == IF newLine THEN <<HookCall("line", lg, self, address)>> ELSE <<>>
        newPage == ~is_initialized(s1, pg)
        s2 == IF newPage THEN set_initialized(no_op(s1), pg, TRUE) ELSE s1
        h2 == IF newPage THEN <<HookCall("page", pg, s1, address)>> ELSE <<>>
    IN  [self |-> s2, hooks |-> h1 \o h2]

prepare_address(self, address) ==
    LET pg == page_group(address)
        lg == line_group(address)
        newPage == ~is_initialized(self, pg)
        s1 == IF newPage THEN set_initialized(no_op(self), pg, TRUE) ELSE self
        h1 == IF newPage THEN <<HookCall("page", pg, self, address)>> ELSE <<>>
        newLine == ~is_initialized(s1, lg)
        s2 == IF newLine THEN set_initialized(no_op(s1), lg, TRUE) ELSE s1
        h2 == IF newLine THEN <<HookCall("line", lg, s1, address)>> ELSE <<>>
    IN  [self |-> s2, hooks |-> h1 \o h2]

----------------------------------------------------------------------------
\* Allocation

\* A scan that has made this many steps without finding a free address has
\* revisited an address and never ends.
ScanLimit == (MaxPage + 1) * (MaxLine + 1) * (MaxColumn + 1)

\* Variant of next_address: line and column counts passed in each other's place.
next_address_swapped(self, address) ==
    wrapped_next(address, self.page_count, self.default_column_count,
                 self.default_line_count)

\* The step of the scan: the successor of an address under the store's bounds.
next_address(self, address) ==
    wrapped_next(address, self.page_count, self.default_line_count,
                 self.default_column_count)

RECURSIVE scan(_, _, _)
scan(self, address, steps) ==
    IF get_color(self, address) = None
    THEN [status |-> "Ok", address |-> Some(address), steps |-> steps]
    ELSE IF steps >= ScanLimit
    THEN [status |-> "Diverges", address |-> None, steps |-> steps]
    ELSE scan(self,
              next_address(self, address),
              steps + 1)

\* Variant of next_free_address: the capacity test is > instead of >=.
next_free_address_gt(self) ==
    IF len(self) > capacity(self)
    THEN [status |-> MaxSlotLimitExceeded, address |-> None, steps |-> 0]
    ELSE scan(self, self.address_cursor, 0)

\* Variant of next_free_address: the capacity test is left out.
next_free_address_unchecked(self) == scan(self, self.address_cursor, 0)

next_free_address(self) ==
    IF len(self) >= capacity(self)
    THEN [status |-> MaxSlotLimitExceeded, address |-> None, steps |-> 0]
    ELSE scan(self, self.address_cursor, 0)

\* Variant of next_free_address_advance_cursor: the cursor is left on the
\* address found instead of its successor.
next_free_address_keep_cursor(self) ==
    LET r == next_free_address(self)
    IN  IF r.status # "Ok"
        THEN [self |-> self, status |-> r.status, address |-> None,
              steps |-> r.steps]
        ELSE [self |-> [self EXCEPT !.address_cursor = r.address[1]],
              status |-> "Ok", address |-> r.address, steps |-> r.steps]

next_free_address_advance_cursor(self) ==
    LET r == next_free_address(self)
    IN  IF r.status # "Ok"
        THEN [self |-> self, status |-> r.status, address |-> None,
              steps |-> r.steps]
        ELSE [self |-> [self EXCEPT !.address_cursor =
                          wrapped_next(r.address[1], self.page_count,
                                       self.default_line_count,
                                       self.default_column_count)],
              status |-> "Ok", address |-> r.address, steps |-> r.steps]

\* Variant of add_slot: the slot is inserted at the advanced cursor instead
\* of the address found.
add_slot_at_cursor(self, new_slot) ==
    LET r == next_free_address_advance_cursor(self)
    IN  IF r.status # "Ok"
        THEN [self |-> self, status |-> r.status, address |-> None,
              steps |-> r.steps, hooks |-> <<>>]
        ELSE LET address == r.address[1]
                 s1 == [r.self EXCEPT !.slotmap =
                           Insert(r.self.slotmap, r.self.address_cursor, new_slot)]
                 p == prepare_address(s1, address)
             IN  [self |-> p.self, status |-> "Ok", address |-> Some(address),
                  steps |-> r.steps, hooks |-> p.hooks]

add_slot(self, new_slot) ==
    LET r == next_free_address_advance_cursor(self)
    IN  IF r.status # "Ok"
        THEN [self |-> self, status |-> r.status, address |-> None,
              steps |-> r.steps, hooks |-> <<>>]
        ELSE LET address == r.address[1]
                 s1 == [r.self EXCEPT !.slotmap =
                           Insert(r.self.slotmap, address, new_slot)]
                 p == prepare_address(s1, address)
             IN  [self |-> p.self, status |-> "Ok", address |-> Some(address),
                  steps |-> r.steps, hooks |-> p.hooks]

add_element(self, new_element) == add_slot(self, Slot_new(new_element))

add_color(self, new_color) == add_element(self, ZerothOrder(new_color))

----------------------------------------------------------------------------
\* Direct addressing

\* Variant of set_color: the order of the existing element is not tested.
set_color_any_order(self, address, new_color) ==
    IF check_address(self, address)
    THEN LET p == prepare_address(self, address)
             new_element == ZerothOrder(new_color)
         IN  IF address \in DOMAIN p.self.slotmap
             THEN [self |-> [p.self EXCEPT !.slotmap[address] = new_element],
                   status |-> "Ok",
                   old_color |-> p.self.slotmap[address].color,
                   hooks |-> p.hooks]
             ELSE [self |-> p.self, status |-> "InvalidAddress",
                   old_color |-> None, hooks |-> p.hooks]
    ELSE [self |-> self, status |-> "InvalidAddress", old_color |-> None,
          hooks |-> <<>>]

\* Variant of set_color: the color returned is the one just stored.
set_color_returns_new(self, address, new_color) ==
    IF check_address(self, address)
    THEN LET p == prepare_address(self, address)
             new_element == ZerothOrder(new_color)
         IN  IF address \in DOMAIN p.self.slotmap
             THEN IF Slot_get_order(p.self.slotmap[address]) # 0
                  THEN [self |-> p.self, status |-> "CannotSetDerivedColor",
                        old_color |-> None, hooks |-> p.hooks]
                  ELSE [self |-> [p.self EXCEPT !.slotmap[address] = new_element],
                        status |-> "Ok",
                        old_color |-> new_element.color,
                        hooks |-> p.hooks]
             ELSE [self |-> p.self, status |-> "InvalidAddress",
                   old_color |-> None, hooks |-> p.hooks]
    ELSE [self |-> self, status |-> "InvalidAddress", old_color |-> None,
          hooks |-> <<>>]

set_color(self, address, new_color) ==
    IF check_address(self, address)
    THEN LET p == prepare_address(self, address)
             new_element == ZerothOrder(new_color)
         IN  IF address \in DOMAIN p.self.slotmap
             THEN IF Slot_get_order(p.self.slotmap[address]) # 0
                  THEN [self |-> p.self, status |-> "CannotSetDerivedColor",
                        old_color |-> None, hooks |-> p.hooks]
                  ELSE [self |-> [p.self EXCEPT !.slotmap[address] = new_element],
                        status |-> "Ok",
                        old_color |-> p.self.slotmap[address].color,
                        hooks |-> p.hooks]
             ELSE [self |-> p.self, status |-> "InvalidAddress",
                   old_color |-> None, hooks |-> p.hooks]
    ELSE [self |-> self, status |-> "InvalidAddress", old_color |-> None,
          hooks |-> <<>>]

\* Variant of set_element: the cursor is moved past the address written.
set_element_moving_cursor(self, address, new_element) ==
    IF check_address(self, address)
    THEN LET p == prepare_address(self, address)
             q == [p.self EXCEPT !.address_cursor = next_address(self, address)]
         IN  IF address \in DOMAIN q.slotmap
             THEN [self |-> [q EXCEPT !.slotmap[address] = new_element],
                   status |-> "Ok",
                   old_element |-> Some(q.slotmap[address]),
                   hooks |-> p.hooks]
             ELSE [self |-> [q EXCEPT !.slotmap =
                               Insert(q.slotmap, address, Slot_new(new_element))],
                   status |-> "Ok", old_element |-> None, hooks |-> p.hooks]
    ELSE [self |-> self, status |-> "InvalidAddress", old_element |-> None,
          hooks |-> <<>>]

\* Variant of set_element: the address is not checked against the bounds.
set_element_unchecked(self, address, new_element) ==
    LET p == prepare_address(self, address)
    IN  IF address \in DOMAIN p.self.slotmap
        THEN [self |-> [p.self EXCEPT !.slotmap[address] = new_element],
              status |-> "Ok",
              old_element |-> Some(p.self.slotmap[address]),
              hooks |-> p.hooks]
        ELSE [self |-> [p.self EXCEPT !.slotmap =
                          Insert(p.self.slotmap, address, Slot_new(new_element))],
              status |-> "Ok", old_element |-> None, hooks |-> p.hooks]

\* Variant of set_element: like set_color, it refuses to replace an element
\* of order > 0.
set_element_order_checked(self, address, new_element) ==
    IF check_address(self, address)
    THEN LET p == prepare_address(self, address)
         IN  IF address \in DOMAIN p.self.slotmap
             THEN IF Slot_get_order(p.self.slotmap[address]) # 0
                  THEN [self |-> p.self, status |-> "CannotSetDerivedColor",
                        old_element |-> None, hooks |-> p.hooks]
                  ELSE [self |-> [p.self EXCEPT !.slotmap[address] = new_element],
                        status |-> "Ok",
                        old_element |-> Some(p.self.slotmap[address]),
                        hooks |-> p.hooks]
             ELSE [self |-> [p.self EXCEPT !.slotmap =
                               Insert(p.self.slotmap, address, Slot_new(new_element))],
                   status |-> "Ok", old_element |-> None, hooks |-> p.hooks]
    ELSE [self |-> self, status |-> "InvalidAddress", old_element |-> None,
          hooks |-> <<>>]

set_element(self, address, new_element) ==
    IF check_address(self, address)
    THEN LET p == prepare_address(self, address)
         IN  IF address \in DOMAIN p.self.slotmap
             THEN [self |-> [p.self EXCEPT !.slotmap[address] = new_element],
                   status |-> "Ok",
                   old_element |-> Some(p.self.slotmap[address]),
                   hooks |-> p.hooks]
             ELSE [self |-> [p.self EXCEPT !.slotmap =
                               Insert(p.self.slotmap, address, Slot_new(new_element))],
                   status |-> "Ok", old_element |-> None, hooks |-> p.hooks]
    ELSE [self |-> self, status |-> "InvalidAddress", old_element |-> None,
          hooks |-> <<>>]

----------------------------------------------------------------------------
\* The state machine

Self == PaletteData(slotmap, metadata, address_cursor, page_count,
                    default_line_count, default_column_count)

\* The bounds a modelled store is constructed with.
Bounds == {b \in (1..MaxPage) \X (1..MaxLine) \X (1..MaxColumn) :
             b[1] * b[2] * b[3] <= MaxCells}

\* write_palette not yet called, nothing walked, no label or name set.
InitAux ==
    /\ walk = <<>>
    /\ out_buf = <<>>
    /\ zpl_pc = "idle"
    /\ zpl_i = 0
    /\ last_set = [g \in Group |-> [format_label |-> None, name |-> None]]

Init ==
    /\ \E b \in Bounds :
         /\ page_count = b[1]
         /\ default_line_count = b[2]
         /\ default_column_count = b[3]
    /\ slotmap = EmptyMap
    /\ metadata = EmptyMap
    /\ address_cursor = Address_new(0, 0, 0)
    /\ hook_calls = [g \in Group |-> 0]
    /\ log = <<>>
    /\ InitAux

\* The fields of a store constructed as `self`.
Constructed(self) ==
    /\ slotmap = self.slotmap
    /\ metadata = self.metadata
    /\ address_cursor = self.address_cursor
    /\ page_count = self.page_count
    /\ default_line_count = self.default_line_count
    /\ default_column_count = self.default_column_count

\* The fields after a call that left the store as `self`.
Becomes(self) ==
    /\ slotmap' = self.slotmap
    /\ metadata' = self.metadata
    /\ address_cursor' = self.address_cursor
    /\ page_count' = self.page_count
    /\ default_line_count' = self.default_line_count
    /\ default_column_count' = self.default_column_count

\* The hook invocations of a call, counted per group.
Invoked(hooks) ==
    hook_calls' = [g \in Group |->
        hook_calls[g] + Cardinality({i \in DOMAIN hooks : hooks[i].group = g})]

Returns(r) == Becomes(r.self) /\ Invoked(r.hooks) /\ UNCHANGED aux

AddColor(c) == Returns(add_color(Self, c)) /\ UNCHANGED log

AddElement(e) == Returns(add_element(Self, e)) /\ UNCHANGED log

AddSlot(e) == Returns(add_slot(Self, Slot_new(e))) /\ UNCHANGED log

SetColor(a, c) == Returns(set_color(Self, a, c)) /\ UNCHANGED log

SetElement(a, e) == Returns(set_element(Self, a, e)) /\ UNCHANGED log

Next ==
    \/ \E c \in Colors : AddColor(c)
    \/ \E e \in ColorElement : AddElement(e)
    \/ \E e \in ColorElement : AddSlot(e)
    \/ \E a \in Address, c \in Colors : SetColor(a, c)
    \/ \E a \in Address, e \in ColorElement : SetElement(a, e)

Spec == Init /\ [][Next]_vars

\* A store filled only by add_color, one call at a time, every call logged
\* with what it returned.
AddColorLogged(c) ==
    LET r == add_color(Self, c)
    IN  /\ Len(log) < capacity(Self) + ExtraCalls
        /\ Returns(r)
        /\ log' = Append(log, [status |-> r.status, address |-> r.address,
                               color |-> c, len |-> len(r.self)])

NextAdd == \E c \in Colors : AddColorLogged(c)

SpecAdd == Init /\ [][NextAdd]_vars

----------------------------------------------------------------------------
\* The ZPL format (src/palette/formats/zpl.rs)

ZPL_HEADER == <<67, 83, 69, 84, 4, 0, 1, 0, 156, 13, 5, 0>>

ZPL_FOOTER_A == <<90, 0, 0, 0>>

ZPL_FOOTER_B == <<0, 0, 0, 0>>

ZPL_FOOTER_C == <<0, 0, 0, 54, 0, 0, 78, 0, 0, 20, 0, 0, 54, 0, 0, 78,
                  0, 0, 20, 0>>

ZPL_FOOTER_D == <<0, 0, 0, 0>>

ZPL_FOOTER_E == <<34, 0, 0, 102, 0, 0, 90, 0, 0, 34, 0, 0, 134, 0, 0, 60,
                  0, 0, 34, 0, 0, 134, 0, 0, 60, 0, 0, 32, 48, 64, 63, 63,
                  63, 7, 7, 7>>

\* The ends of the ranges `1..109` and `1..79` of the two footer loops.
ZPL_FOOTER_B_END == 109
ZPL_FOOTER_D_END == 79

ZPL_LABEL == "ZplPalette 1.0.0"

\* Names a palette is constructed with.
Names == {"dungeon", "overworld"}

\* ZplPalette::new
ZplPalette_new(name) ==
    LET core == PaletteData_default(255, 16, 16)
        s1 == set_label(core, GroupAll, ZPL_LABEL)
        s2 == set_name(s1, GroupAll, name)
    IN  set_initialized(s2, GroupAll, TRUE)

InitZpl ==
    /\ \E n \in Names :
         /\ Constructed(ZplPalette_new(n))
         /\ last_set = [g \in Group |->
                IF g = GroupAll
                THEN [format_label |-> Some(ZPL_LABEL), name |-> Some(n)]
                ELSE [format_label |-> None, name |-> None]]
    /\ hook_calls = [g \in Group |-> 0]
    /\ log = <<>>
    /\ walk = <<>>
    /\ out_buf = <<>>
    /\ zpl_pc = "idle"
    /\ zpl_i = 0

\* One out_buf.write(bytes) that succeeds, on a writer that takes all of it.
Write(bytes, pc, i) ==
    /\ out_buf' = out_buf \o bytes
    /\ zpl_pc' = pc
    /\ zpl_i' = i
    /\ UNCHANGED <<store, hook_calls, log, walk, last_set>>

WriteHeader == zpl_pc = "idle" /\ Write(ZPL_HEADER, "footer_a", zpl_i)

WriteFooterA == zpl_pc = "footer_a" /\ Write(ZPL_FOOTER_A, "footer_b", 1)

WriteFooterB ==
    /\ zpl_pc = "footer_b"
    /\ zpl_i < ZPL_FOOTER_B_END
    /\ Write(ZPL_FOOTER_B, "footer_b", zpl_i + 1)

WriteFooterC ==
    /\ zpl_pc = "footer_b"
    /\ zpl_i >= ZPL_FOOTER_B_END
    /\ Write(ZPL_FOOTER_C, "footer_d", 1)

WriteFooterD ==
    /\ zpl_pc = "footer_d"
    /\ zpl_i < ZPL_FOOTER_D_END
    /\ Write(ZPL_FOOTER_D, "footer_d", zpl_i + 1)

WriteFooterE ==
    /\ zpl_pc = "footer_d"
    /\ zpl_i >= ZPL_FOOTER_D_END
    /\ Write(ZPL_FOOTER_E, "done", zpl_i)

\* A write that returns an error: try! returns it and nothing more is written.
WriteFails ==
    /\ zpl_pc \in {"idle", "footer_a", "footer_b", "footer_d"}
    /\ zpl_pc' = "err"
    /\ UNCHANGED <<store, hook_calls, log, walk, out_buf, zpl_i, last_set>>

NextZpl ==
    \/ WriteHeader
    \/ WriteFooterA
    \/ WriteFooterB
    \/ WriteFooterC
    \/ WriteFooterD
    \/ WriteFooterE
    \/ WriteFails

SpecZpl == InitZpl /\ [][NextZpl]_vars

----------------------------------------------------------------------------
\* Bounds changed on a live store: page_count, default_line_count and
\* default_column_count are public fields a caller may assign at any time.

SetBounds(b) ==
    /\ page_count' = b[1]
    /\ default_line_count' = b[2]
    /\ default_column_count' = b[3]
    /\ UNCHANGED <<slotmap, metadata, address_cursor, hook_calls, log>>
    /\ UNCHANGED aux

NextResize ==
    \/ \E e \in ColorElement : AddElement(e)
    \/ \E b \in Bounds : SetBounds(b)

SpecResize == Init /\ [][NextResize]_vars

----------------------------------------------------------------------------
\* Metadata writes on a ZplPalette's store or on a default store.

\* Labels a caller sets.
Labels == {ZPL_LABEL, "custom"}

\* Groups the metadata actions write: the top-level group, a page, a line.
MetaGroups == {GroupAll, page_group(Address_new(0, 0, 0)),
               line_group(Address_new(0, 0, 0))}

SetLabel(g, s) ==
    /\ Becomes(set_label(Self, g, s))
    /\ last_set' = [last_set EXCEPT ![g].format_label = Some(s)]
    /\ UNCHANGED <<hook_calls, log, walk, out_buf, zpl_pc, zpl_i>>

SetName(g, n) ==
    /\ Becomes(set_name(Self, g, n))
    /\ last_set' = [last_set EXCEPT ![g].name = Some(n)]
    /\ UNCHANGED <<hook_calls, log, walk, out_buf, zpl_pc, zpl_i>>

SetInitialized(g, v) ==
    /\ Becomes(set_initialized(Self, g, v))
    /\ UNCHANGED <<hook_calls, log, walk, out_buf, zpl_pc, zpl_i, last_set>>

InitMeta ==
    \/ InitZpl
    \/ /\ Constructed(PaletteData_default(1, 1, 1))
       /\ hook_calls = [g \in Group |-> 0]
       /\ log = <<>>
       /\ InitAux

NextMeta ==
    \/ \E g \in MetaGroups, s \in Labels : SetLabel(g, s)
    \/ \E g \in MetaGroups, n \in Names : SetName(g, n)
    \/ \E g \in MetaGroups, v \in BOOLEAN : SetInitialized(g, v)

SpecMeta == InitMeta /\ [][NextMeta]_vars

----------------------------------------------------------------------------
\* The ring of addresses: wrapped_next applied again and again from an
\* in-bounds address, under every bounds up to the largest.

RingBounds == (1..MaxPage) \X (1..MaxLine) \X (1..MaxColumn)

InitRing ==
    /\ \E b \in RingBounds :
         /\ page_count = b[1]
         /\ default_line_count = b[2]
         /\ default_column_count = b[3]
    /\ slotmap = EmptyMap
    /\ metadata = EmptyMap
    /\ address_cursor = Address_new(0, 0, 0)
    /\ hook_calls = [g \in Group |-> 0]
    /\ log = <<>>
    /\ \E a \in Address : check_address(Self, a) /\ walk = <<a>>
    /\ out_buf = <<>>
    /\ zpl_pc = "idle"
    /\ zpl_i = 0
    /\ last_set = [g \in Group |-> [format_label |-> None, name |-> None]]

WrappedNext ==
    /\ Len(walk) <= capacity(Self)
    /\ walk' = Append(walk, next_address(Self, walk[Len(walk)]))
    /\ UNCHANGED <<store, hook_calls, log, out_buf, zpl_pc, zpl_i, last_set>>

NextRing == WrappedNext

SpecRing == InitRing /\ [][NextRing]_vars

----------------------------------------------------------------------------
\* Properties of the store

InBounds(a) ==
    /\ a.page < page_count
    /\ a.line < default_line_count
    /\ a.column < default_column_count

Occupied(a) == a \in DOMAIN slotmap

\* C1: for every in-bounds address a without a slot, set_color(a, c) succeeds,
\* returns none as the previous colour, inserts a direct-colour slot at a and
\* leaves get_color(a) = c.
C1_SetColorFillsEmptyAddress ==
    \A a \in Address, c \in Colors :
        (InBounds(a) /\ ~Occupied(a)) =>
            LET r == set_color(Self, a, c)
            IN  /\ r.status = "Ok"
                /\ r.old_color = None
                /\ a \in DOMAIN r.self.slotmap
                /\ r.self.slotmap[a] = ZerothOrder(c)
                /\ get_color(r.self, a) = Some(c)

\* C2: a store of capacity N filled only by add_color: call i succeeds and
\* leaves len() = i for i <= N; every later call fails with
\* MaxCellLimitExceeded and leaves len() = N.
C2_ExactlyCapacityManyAllocations ==
    \A i \in 1..Len(log) :
        IF i <= capacity(Self)
        THEN log[i].status = "Ok" /\ log[i].len = i
        ELSE log[i].status = MaxCellLimitExceeded /\ log[i].len = capacity(Self)

\* C2 witness: a store of capacity at least 3 after the call that follows
\* its last successful one.
C2_Witness ==
    /\ capacity(Self) >= 3
    /\ Len(log) = capacity(Self) + 1
    /\ log[capacity(Self)].status = "Ok"
    /\ log[capacity(Self) + 1].status = MaxCellLimitExceeded
    /\ len(Self) = capacity(Self)

\* C3: a call that returns an error leaves the whole store as it was and
\* invokes no hook.
C3_ErrorsLeaveStoreUntouched ==
    /\ \A a \in Address, c \in Colors :
          LET r == set_color(Self, a, c)
          IN  r.status # "Ok" => (r.self = Self /\ r.hooks = <<>>)
    /\ \A a \in Address, e \in ColorElement :
          LET r == set_element(Self, a, e)
          IN  r.status # "Ok" => (r.self = Self /\ r.hooks = <<>>)
    /\ \A e \in ColorElement :
          /\ LET r == add_slot(Self, Slot_new(e))
             IN  r.status # "Ok" => (r.self = Self /\ r.hooks = <<>>)
          /\ LET r == add_element(Self, e)
             IN  r.status # "Ok" => (r.self = Self /\ r.hooks = <<>>)
    /\ \A c \in Colors :
          LET r == add_color(Self, c)
          IN  r.status # "Ok" => (r.self = Self /\ r.hooks = <<>>)

\* C4: for every in-bounds address a holding an element of order > 0,
\* set_color(a, c) fails with CannotSetDerivedColor, and the slot at a, its
\* order and get_color(a) are the same before and after.
C4_DerivedColorNotOverwritten ==
    \A a \in Address, c \in Colors :
        (InBounds(a) /\ Occupied(a) /\ Slot_get_order(slotmap[a]) > 0) =>
            LET r == set_color(Self, a, c)
            IN  /\ r.status = "CannotSetDerivedColor"
                /\ a \in DOMAIN r.self.slotmap
                /\ Slot_get_order(r.self.slotmap[a]) = Slot_get_order(slotmap[a])
                /\ get_color(r.self, a) = get_color(Self, a)
                /\ r.self.slotmap = slotmap

\* C4 witness: a derived element that resolves to a colour, refused a
\* different colour.
C4_Witness ==
    \E a \in Address, c \in Colors :
        /\ InBounds(a) /\ Occupied(a)
        /\ Slot_get_order(slotmap[a]) > 0
        /\ get_color(Self, a) # None
        /\ get_color(Self, a) # Some(c)
        /\ set_color(Self, a, c).status = "CannotSetDerivedColor"

\* A group has been written when a slot of the slot map lies in it (slots
\* are never removed).
Written(g) ==
    \E a \in DOMAIN slotmap : g = page_group(a) \/ g = line_group(a)

\* C5: each page group and each line group has had its hook invoked exactly
\* once if an address of the group has been written, and not at all before
\* the first such write.
C5_HookOncePerWrittenGroup ==
    \A g \in Group : hook_calls[g] = IF Written(g) THEN 1 ELSE 0

\* The k-th address (k = 1, 2, ...) of the current bounds in lexicographic
\* (page, line, column) order.
NthAddress(k) ==
    Address_new((k - 1) \div (default_line_count * default_column_count),
                ((k - 1) \div default_column_count) % default_line_count,
                (k - 1) % default_column_count)

\* The number of successful calls among the first i logged calls.
Successes(i) == Cardinality({j \in 1..i : log[j].status = "Ok"})

\* C6: in a store filled only by add_color from empty, the k-th successful
\* add_color returns the k-th address in lexicographic order, get_color on
\* it yields the colour added there, and get_color on an address no call
\* returned is none.
C6_AllocationInAddressOrder ==
    /\ \A i \in 1..Len(log) :
          log[i].status = "Ok" =>
              /\ log[i].address = Some(NthAddress(Successes(i)))
              /\ get_color(Self, NthAddress(Successes(i))) = Some(log[i].color)
    /\ \A a \in Address :
          (\A i \in 1..Len(log) : log[i].address # Some(a)) =>
              get_color(Self, a) = None

\* C6 witness: three colours added, returned (0,0,0), (0,0,1), (0,0,2), the
\* second colour different from the first.
C6_Witness ==
    /\ Len(log) = 3
    /\ log[1].address = Some(Address_new(0, 0, 0))
    /\ log[2].address = Some(Address_new(0, 0, 1))
    /\ log[3].address = Some(Address_new(0, 0, 2))
    /\ log[1].color # log[2].color
    /\ get_color(Self, Address_new(0, 0, 1)) = Some(log[2].color)

\* C7: for every in-bounds address a, set_element(a, e) succeeds whatever is
\* there: it returns the previous element if a slot exists and none
\* otherwise, and the slot at a holds e afterwards.
C7_SetElementAlwaysReplaces ==
    \A a \in Address, e \in ColorElement :
        InBounds(a) =>
            LET r == set_element(Self, a, e)
            IN  /\ r.status = "Ok"
                /\ r.old_element =
                      (IF Occupied(a) THEN Some(slotmap[a]) ELSE None)
                /\ a \in DOMAIN r.self.slotmap
                /\ r.self.slotmap[a] = e

\* C7 witness: one in-bounds address holds an element of order > 0 that a
\* direct colour replaces, and another in-bounds address has no slot.
C7_Witness ==
    \E a, b \in Address, c \in Colors :
        /\ InBounds(a) /\ Occupied(a) /\ Slot_get_order(slotmap[a]) > 0
        /\ set_element(Self, a, ZerothOrder(c)).old_element = Some(slotmap[a])
        /\ set_element(Self, a, ZerothOrder(c)).self.slotmap[a] = ZerothOrder(c)
        /\ InBounds(b) /\ ~Occupied(b)
        /\ set_element(Self, b, Derived(1, None)).old_element = None

\* C8: check_address(a) is exactly the three component tests, whatever is
\* occupied, and for an address with a component at or above its bound
\* set_color and set_element fail with InvalidAddress and leave the store
\* as it was.
C8_BoundsChecked ==
    \A a \in Address :
        /\ check_address(Self, a) <=> InBounds(a)
        /\ check_address(Self, a) <=>
              check_address(PaletteData_default(page_count, default_line_count,
                                                default_column_count), a)
        /\ ~InBounds(a) =>
              /\ \A c \in Colors :
                    LET r == set_color(Self, a, c)
                    IN  r.status = "InvalidAddress" /\ r.self = Self
              /\ \A e \in ColorElement :
                    LET r == set_element(Self, a, e)
                    IN  r.status = "InvalidAddress" /\ r.self = Self

\* C8 witness: a store holding slots, and an address whose column equals
\* column_count (page and line in bounds) refused by both operations.
C8_Witness ==
    \E a \in Address, c \in Colors :
        /\ len(Self) > 0
        /\ a.page < page_count /\ a.line < default_line_count
        /\ a.column = default_column_count
        /\ ~check_address(Self, a)
        /\ set_color(Self, a, c).status = "InvalidAddress"
        /\ set_element(Self, a, ZerothOrder(c)).status = "InvalidAddress"

\* C9: whenever next_free_address passes its capacity check, its scan ends,
\* after at most page_count * line_count * column_count applications of
\* wrapped_next.
C9_ScanBounded ==
    LET r == next_free_address(Self)
    IN  r.status # MaxCellLimitExceeded =>
            (r.status = "Ok" /\ r.steps <= capacity(Self))

\* C9 witness: a scan that passes every other address of a store of
\* capacity at least 3 before it finds the free one.
C9_Witness ==
    /\ capacity(Self) >= 3
    /\ next_free_address(Self).status = "Ok"
    /\ next_free_address(Self).steps = capacity(Self) - 1

\* C10: a successful allocation that returns a leaves the cursor at
\* wrapped_next(a); one that fails with MaxCellLimitExceeded leaves the
\* cursor where it was.
C10_CursorFollowsAllocation ==
    \A e \in ColorElement :
        \A r \in {add_slot(Self, Slot_new(e)), add_element(Self, e)}
                 \cup (IF Slot_get_order(e) = 0
                       THEN {add_color(Self, e.color[1])} ELSE {}) :
            /\ r.status \in {"Ok", MaxCellLimitExceeded}
            /\ r.status = "Ok" =>
                  r.self.address_cursor =
                      wrapped_next(r.address[1], page_count, default_line_count,
                                   default_column_count)
            /\ r.status = MaxCellLimitExceeded =>
                  r.self.address_cursor = address_cursor

\* C10 witness: an allocation that returns an address other than the cursor
\* and wraps the cursor back to (0,0,0).
C10_Witness ==
    \E c \in Colors :
        LET r == add_color(Self, c)
        IN  /\ r.status = "Ok"
            /\ r.address # Some(address_cursor)
            /\ address_cursor # Address_new(0, 0, 0)
            /\ r.self.address_cursor = Address_new(0, 0, 0)

\* C10 witness of the failing case: a full store whose cursor is not (0,0,0).
C10_WitnessFull ==
    \E c \in Colors :
        /\ add_color(Self, c).status = MaxCellLimitExceeded
        /\ address_cursor # Address_new(0, 0, 0)

\* The largest address of the current bounds.
MaxAddress ==
    Address_new(page_count - 1, default_line_count - 1, default_column_count - 1)

\* C11: from every in-bounds address, P*L*C applications of wrapped_next
\* return to it, no address occurs twice before that, and the successor of
\* the largest address (P-1, L-1, C-1) is (0,0,0).
C11_RingClosure ==
    /\ \A i, j \in 1..Len(walk) :
          (i < j /\ j <= capacity(Self)) => walk[i] # walk[j]
    /\ Len(walk) = capacity(Self) + 1 => walk[capacity(Self) + 1] = walk[1]
    /\ \A i \in 1..(Len(walk) - 1) :
          walk[i] = MaxAddress => walk[i + 1] = Address_new(0, 0, 0)

\* C11 witness: a full cycle of at least six addresses that started away
\* from (0,0,0) and passed the largest address on the way.
C11_Witness ==
    /\ capacity(Self) >= 6
    /\ Len(walk) = capacity(Self) + 1
    /\ walk[1] # Address_new(0, 0, 0)
    /\ walk[1] # MaxAddress
    /\ walk[capacity(Self) + 1] = walk[1]
    /\ \E i \in 2..capacity(Self) : walk[i] = MaxAddress

\* A byte string repeated n times.
Repeated(bytes, n) ==
    [i \in 1..(n * Len(bytes)) |-> bytes[((i - 1) % Len(bytes)) + 1]]

\* C12: write_palette writes the 12-byte header, footer A once, footer B
\* 109 times, footer C once, footer D 79 times and footer E once, in that
\* order.
C12_FooterRepetitions ==
    zpl_pc = "done" =>
        /\ Len(ZPL_HEADER) = 12
        /\ out_buf = ZPL_HEADER \o ZPL_FOOTER_A \o Repeated(ZPL_FOOTER_B, 109)
                       \o ZPL_FOOTER_C \o Repeated(ZPL_FOOTER_D, 79)
                       \o ZPL_FOOTER_E

\* What write_palette has written when it returns Ok: footer B 108 times
\* and footer D 78 times.
C12_Written ==
    zpl_pc = "done" =>
        out_buf = ZPL_HEADER \o ZPL_FOOTER_A \o Repeated(ZPL_FOOTER_B, 108)
                    \o ZPL_FOOTER_C \o Repeated(ZPL_FOOTER_D, 78)
                    \o ZPL_FOOTER_E

\* C13: with the bounds left as constructed, every key of the slot map
\* lies inside the bounds: page < page_count, line < line_count and
\* column < column_count.
C13_KeysInBounds ==
    \A k \in DOMAIN slotmap :
        /\ k.page < page_count
        /\ k.line < default_line_count
        /\ k.column < default_column_count

\* The last in-bounds address of a store of three or more cells is a key.
C13_Witness ==
    /\ capacity(Self) >= 3
    /\ Address_new(page_count - 1, default_line_count - 1,
                   default_column_count - 1) \in DOMAIN slotmap
    /\ len(Self) >= 2

\* C14: whatever the bounds have been changed to, every address returned by
\* a successful add_color, add_element or add_slot satisfies check_address
\* under the bounds current at that call.
C14_AllocationInsideCurrentBounds ==
    /\ \A c \in Colors :
         LET r == add_color(Self, c)
         IN  r.status = "Ok" => check_address(Self, r.address[1])
    /\ \A e \in ColorElement :
         /\ LET r == add_element(Self, e)
            IN  r.status = "Ok" => check_address(Self, r.address[1])
         /\ LET r == add_slot(Self, Slot_new(e))
            IN  r.status = "Ok" => check_address(Self, r.address[1])

\* The hooks of a call that targets `address` ran before the call put a
\* slot there: a hook that sees a slot at the address sees one that was
\* in the slot map before the call.
HooksBeforeInsert(hooks, address) ==
    \A i \in DOMAIN hooks :
        hooks[i].slot_present => address \in DOMAIN slotmap

\* C15: in add_color, add_element, add_slot, set_color and set_element the
\* groups of the target address are prepared, hooks included, before the
\* slot map is modified: when a hook runs, the slot being added is not yet
\* in the slot map.
C15_HooksRunBeforeInsert ==
    /\ \A c \in Colors :
         LET r == add_color(Self, c)
         IN  r.status = "Ok" => HooksBeforeInsert(r.hooks, r.address[1])
    /\ \A e \in ColorElement :
         /\ LET r == add_element(Self, e)
            IN  r.status = "Ok" => HooksBeforeInsert(r.hooks, r.address[1])
         /\ LET r == add_slot(Self, Slot_new(e))
            IN  r.status = "Ok" => HooksBeforeInsert(r.hooks, r.address[1])
    /\ \A a \in Address :
         /\ \A c \in Colors : HooksBeforeInsert(set_color(Self, a, c).hooks, a)
         /\ \A e \in ColorElement :
              HooksBeforeInsert(set_element(Self, a, e).hooks, a)

\* What holds of set_color and set_element alone: their hooks never see
\* the slot being added.
C15_SetHooksRunBeforeInsert ==
    \A a \in Address :
        /\ \A c \in Colors : HooksBeforeInsert(set_color(Self, a, c).hooks, a)
        /\ \A e \in ColorElement :
             HooksBeforeInsert(set_element(Self, a, e).hooks, a)

\* C16: when prepare_address(a) finds both groups of a uninitialized it
\* invokes the page-hook, marks the page group initialized, and only then
\* invokes the line-hook; no line-hook runs while the page group of its
\* address is uninitialized.
C16_PageBeforeLine ==
    \A a \in Address :
        LET p == prepare_address(Self, a)
        IN  /\ \A i \in DOMAIN p.hooks :
                 p.hooks[i].hook = "line" => p.hooks[i].page_initialized
            /\ (~is_initialized(Self, page_group(a))
                  /\ ~is_initialized(Self, line_group(a)))
               => /\ Len(p.hooks) = 2
                  /\ p.hooks[1].hook = "page"
                  /\ p.hooks[1].group = page_group(a)
                  /\ ~p.hooks[1].page_initialized
                  /\ p.hooks[2].hook = "line"
                  /\ p.hooks[2].group = line_group(a)
                  /\ p.hooks[2].page_initialized
                  /\ is_initialized(p.self, page_group(a))
                  /\ is_initialized(p.self, line_group(a))

\* A store that has prepared one page and has an in-bounds address on a page
\* not yet prepared, and one on a prepared page whose line is not.
C16_Witness ==
    /\ len(Self) > 0
    /\ \E a \in Address :
         /\ check_address(Self, a)
         /\ ~is_initialized(Self, page_group(a))
         /\ ~is_initialized(Self, line_group(a))
         /\ Len(prepare_address(Self, a).hooks) = 2
    /\ \E b \in Address :
         /\ check_address(Self, b)
         /\ is_initialized(Self, page_group(b))
         /\ ~is_initialized(Self, line_group(b))
         /\ Len(prepare_address(Self, b).hooks) = 1

\* A successful allocation that returned `r` took an address that was no key
\* of the slot map, left every existing slot as it was and added one slot.
TakesUnusedAddress(r) ==
    r.status = "Ok" =>
        /\ r.address[1] \notin DOMAIN slotmap
        /\ \A b \in DOMAIN slotmap :
             b \in DOMAIN r.self.slotmap /\ r.self.slotmap[b] = slotmap[b]
        /\ len(r.self) = len(Self) + 1

\* C17: in every reachable state, also where set_element has stored an
\* element with no resolvable color, a successful add_color, add_element or
\* add_slot returns an address that was not a key of the slot map, overwrites
\* no existing slot and increases len() by exactly 1.
C17_AllocationTakesUnusedAddress ==
    /\ \A c \in Colors : TakesUnusedAddress(add_color(Self, c))
    /\ \A e \in ColorElement :
         /\ TakesUnusedAddress(add_element(Self, e))
         /\ TakesUnusedAddress(add_slot(Self, Slot_new(e)))

\* What holds instead: the address returned had no resolvable color, and
\* len() grows by 1 exactly when the address had no slot.
C17_AllocationTakesColourlessAddress ==
    \A e \in ColorElement :
        LET r == add_slot(Self, Slot_new(e))
        IN  r.status = "Ok" =>
              /\ get_color(Self, r.address[1]) = None
              /\ len(r.self) = len(Self)
                     + (IF r.address[1] \in DOMAIN slotmap THEN 0 ELSE 1)

\* C18: on an in-bounds address whose slot holds an order-0 element with
\* color c0, set_color(a, c1) succeeds and returns c0, get_color(a) is c1
\* afterwards, and the keys of the slot map and len() are unchanged.
C18_SetColorReplacesInPlace ==
    \A a \in Address, c0, c1 \in Colors :
        (/\ check_address(Self, a)
         /\ a \in DOMAIN slotmap
         /\ Slot_get_order(slotmap[a]) = 0
         /\ Slot_get_color(slotmap[a]) = Some(c0))
        => LET r == set_color(Self, a, c1)
           IN  /\ r.status = "Ok"
               /\ r.old_color = Some(c0)
               /\ get_color(r.self, a) = Some(c1)
               /\ DOMAIN r.self.slotmap = DOMAIN slotmap
               /\ len(r.self) = len(Self)

\* A store of two or more slots where a red direct color is set to green.
C18_Witness ==
    /\ len(Self) >= 2
    /\ \E a \in DOMAIN slotmap :
         /\ slotmap[a] = ZerothOrder("red")
         /\ set_color(Self, a, "green").status = "Ok"
         /\ get_color(set_color(Self, a, "green").self, a) = Some("green")

\* The slots other than the one at `a`, as a map.
OtherSlots(self, a) ==
    [b \in (DOMAIN self.slotmap) \ {a} |-> self.slotmap[b]]

\* get_color of `self` is that of the store at every address but `a`
\* (an address that is a key of neither slot map has no color in both).
OtherColors(self, a) ==
    \A b \in ((DOMAIN self.slotmap) \cup (DOMAIN slotmap)) \ {a} :
        get_color(self, b) = get_color(Self, b)

\* A call on address `a` that left the store as `self` changed at most the
\* slot at `a`.
ChangesAtMost(self, a) ==
    /\ OtherSlots(self, a) = OtherSlots(Self, a)
    /\ OtherColors(self, a)
    /\ self.address_cursor = address_cursor
    /\ self.page_count = page_count
    /\ self.default_line_count = default_line_count
    /\ self.default_column_count = default_column_count

OtherGroups(self, g) ==
    /\ (DOMAIN self.metadata) \ {g} = (DOMAIN metadata) \ {g}
    /\ \A h \in (DOMAIN metadata) \ {g} : self.metadata[h] = metadata[h]

\* The entry of group g before a write: the one stored, or the default one.
EntryOrDefault(g) ==
    IF g \in DOMAIN metadata THEN metadata[g] ELSE Metadata_default

\* C20: set_label, set_name and set_initialized create a default entry for
\* the group if none exists and change only their one field of it, leaving
\* the group's other two fields and every other group's metadata unchanged;
\* get_label and get_name return the last value set for the group, or none
\* if it was never set; after ZplPalette::new(name) the top-level group has
\* the label "ZplPalette 1.0.0", the given name, and is marked initialized.
C20_MetadataFieldwiseUpsert ==
    /\ \A g \in Group :
         /\ \A s \in Labels :
              LET r == set_label(Self, g, s)
              IN  /\ g \in DOMAIN r.metadata
                  /\ r.metadata[g] =
                       [EntryOrDefault(g) EXCEPT !.format_label = Some(s)]
                  /\ get_label(r, g) = Some(s)
                  /\ OtherGroups(r, g)
         /\ \A n \in Names :
              LET r == set_name(Self, g, n)
              IN  /\ g \in DOMAIN r.metadata
                  /\ r.metadata[g] = [EntryOrDefault(g) EXCEPT !.name = Some(n)]
                  /\ get_name(r, g) = Some(n)
                  /\ OtherGroups(r, g)
         /\ \A v \in BOOLEAN :
              LET r == set_initialized(Self, g, v)
              IN  /\ g \in DOMAIN r.metadata
                  /\ r.metadata[g] = [EntryOrDefault(g) EXCEPT !.initialized = v]
                  /\ is_initialized(r, g) = v
                  /\ OtherGroups(r, g)
         /\ get_label(Self, g) = last_set[g].format_label
         /\ get_name(Self, g) = last_set[g].name
    /\ \A n \in Names :
         LET pal == ZplPalette_new(n)
         IN  /\ get_label(pal, GroupAll) = Some("ZplPalette 1.0.0")
             /\ get_name(pal, GroupAll) = Some(n)
             /\ is_initialized(pal, GroupAll)

\* A ZplPalette whose top-level group was renamed and un-initialized while
\* keeping its label, and whose page group has a name but no label.
C20_Witness ==
    /\ page_count = 255
    /\ get_label(Self, GroupAll) = Some("ZplPalette 1.0.0")
    /\ get_name(Self, GroupAll) # None
    /\ ~is_initialized(Self, GroupAll)
    /\ \E g \in MetaGroups \ {GroupAll} :
         /\ g \in DOMAIN metadata
         /\ get_label(Self, g) = None
         /\ get_name(Self, g) = Some("overworld")

\* An address is free when it has no slot or its slot has no resolvable
\* color: the test the allocation scan applies.
Free(a) == get_color(Self, a) = None

\* Some address within the current bounds is free.
FreeAddressExists == \E a \in Address : check_address(Self, a) /\ Free(a)

\* C21: add_color, add_element and add_slot fail with MaxCellLimitExceeded
\* if and only if no address within the current bounds is free, where free
\* means no slot or a slot with no resolvable color; the capacity test by
\* len() and the scan agree on which addresses are occupied.
C21_CapacityErrorIffNoFreeAddress ==
    /\ \A c \in Colors :
         (add_color(Self, c).status = MaxCellLimitExceeded)
            <=> ~FreeAddressExists
    /\ \A e \in ColorElement :
         /\ (add_element(Self, e).status = MaxCellLimitExceeded)
               <=> ~FreeAddressExists
         /\ (add_slot(Self, Slot_new(e)).status = MaxCellLimitExceeded)
               <=> ~FreeAddressExists
    /\ len(Self) = Cardinality({a \in Address : check_address(Self, a) /\ ~Free(a)})

\* What holds instead: an allocation fails exactly when every address within
\* the bounds has a slot, and so whenever no address is free.
C21_CapacityErrorIffAllKeys ==
    \A e \in ColorElement :
        LET r == add_slot(Self, Slot_new(e))
        IN  /\ (r.status = MaxCellLimitExceeded)
                 <=> (\A a \in Address : check_address(Self, a) => a \in DOMAIN slotmap)
            /\ ~FreeAddressExists => r.status = MaxCellLimitExceeded

====
